---- MODULE Spec2Model ----
(***************************************************************************)
(* Model of the command-line chat client (main.py, chatgpt.py) and of its  *)
(* spreadsheet exporter (output_excel.py).                                 *)
(*                                                                         *)
(* Text is a sequence of characters; a character is a one-element token.   *)
(* Two characters that TLA+ source cannot spell are named: SUP2 is U+00B2  *)
(* (superscript two) and ELLIPSIS is U+2026.                               *)
(***************************************************************************)
EXTENDS Integers, Sequences, FiniteSets, TLC

VARIABLES
    pc,              \* position of the program
    os_name,         \* os.name of the host
    file,            \* chat_log.xlsx on disk
    other_open,      \* another process holds chat_log.xlsx open
    error,           \* the uncaught exception that ended the run, or "none"
    notice,          \* the last diagnostic printed
    gpt_list,        \* chat_runner: gpt_list
    input_number,    \* choice_model: input_number (last line read)
    choice,          \* chat_runner: choice
    system_role,     \* generate_chat_log: system_role
    chat_log,        \* generate_chat_log: chat_log
    prompt,          \* generate_chat_log: prompt (last value returned by input_user_prompt)
    request,         \* the messages argument of the last ChatCompletion.create
    calls,           \* how often each remote call / output_excel was made
    did,             \* the kinds of interaction made so far
    summary,         \* chat_runner: initial_prompt_summary
    workbook,        \* output_excel: workbook (in memory)
    is_created,      \* output_excel: is_created
    trimmed_title,   \* create_worksheet: trimmed_title
    conflict,        \* the exporter touched the file while another process held it
    exports,         \* finished output_excel calls (sequence-of-exports driver)
    before,          \* the file as it was when the running export loaded it
    fn_in,           \* argument of the function under test
    fn_budget,       \* summary_length of the function under test
    fn_out           \* result of the function under test

vars == <<pc, os_name, file, other_open, error, notice, gpt_list, input_number,
          choice, system_role, chat_log, prompt, request, calls, did, summary, workbook, is_created,
          trimmed_title, conflict, exports, before, fn_in, fn_budget, fn_out>>

\* Python's None, as a text and as a list of texts
None == <<"None">>

NoneList == <<None>>

-----------------------------------------------------------------------------
(* Bounds of the model *)

\* user messages accepted in one chat session
MaxTurns == 2
\* output_excel calls in one behaviour of SpecExport
MaxExports == 3
\* length of the texts the pure functions are applied to
MaxTextLen == 3
\* summary_length values the summary function is applied with (0..MaxBudget)
MaxBudget == 2

-----------------------------------------------------------------------------
(* Python primitives *)

Min(a, b) == IF a < b THEN a ELSE b

Max(a, b) == IF a > b THEN a ELSE b

SUP2 == "SUP2"

ELLIPSIS == "ELLIPSIS"

DecimalChars == {"0", "1", "2", "3", "4", "5", "6", "7", "8", "9"}

\* str.isdigit: non-empty and every character has the Unicode property
\* Numeric_Type=Digit or Decimal; U+00B2 has Numeric_Type=Digit.
IsDigit(s) == Len(s) > 0 /\ \A i \in 1..Len(s) : s[i] \in DecimalChars \cup {SUP2}

\* int(s) raises ValueError unless every character is a decimal digit
\* (only texts that passed isdigit reach it).
IntRaises(s) == \E i \in 1..Len(s) : s[i] \notin DecimalChars

DigitValue(c) ==
    CASE c = "0" -> 0 [] c = "1" -> 1 [] c = "2" -> 2 [] c = "3" -> 3 [] c = "4" -> 4
      [] c = "5" -> 5 [] c = "6" -> 6 [] c = "7" -> 7 [] c = "8" -> 8 [] c = "9" -> 9

RECURSIVE IntValue(_)
IntValue(s) ==
    IF Len(s) = 0 THEN 0
    ELSE 10 * IntValue(SubSeq(s, 1, Len(s) - 1)) + DigitValue(s[Len(s)])

\* s[:n]
SliceTo(s, n) ==
    IF n >= 0 THEN SubSeq(s, 1, Min(n, Len(s)))
    ELSE SubSeq(s, 1, Max(0, Len(s) + n))

\* s.replace(c, "") for a one-character c
ReplaceChar(s, c) == SelectSeq(s, LAMBDA x : x # c)

\* sub in s
Contains(s, sub) ==
    \E i \in 0..(Len(s) - Len(sub)) : SubSeq(s, i + 1, i + Len(sub)) = sub

\* code points of the characters that occur in model identifiers
Ord(c) ==
    CASE c = "-" -> 45 [] c = "." -> 46 [] c = "3" -> 51 [] c = "4" -> 52 [] c = "5" -> 53
      [] c = "a" -> 97 [] c = "b" -> 98 [] c = "d" -> 100 [] c = "g" -> 103
      [] c = "o" -> 111 [] c = "p" -> 112 [] c = "r" -> 114 [] c = "t" -> 116
      [] c = "u" -> 117

\* a < b for str
RECURSIVE StrLess(_, _)
StrLess(a, b) ==
    IF Len(b) = 0 THEN FALSE
    ELSE IF Len(a) = 0 THEN TRUE
    ELSE IF a[1] # b[1] THEN Ord(a[1]) < Ord(b[1])
    ELSE StrLess(Tail(a), Tail(b))

\* insert x into the sorted list l, after the elements not greater than it
RECURSIVE SortedInsert(_, _)
SortedInsert(l, x) ==
    IF Len(l) = 0 THEN <<x>>
    ELSE IF StrLess(x, l[1]) THEN <<x>> \o l
    ELSE <<l[1]>> \o SortedInsert(Tail(l), x)

\* list.sort()
RECURSIVE Sorted(_)
Sorted(l) ==
    IF Len(l) = 0 THEN <<>>
    ELSE SortedInsert(Sorted(SubSeq(l, 1, Len(l) - 1)), l[Len(l)])

\* the 0-based position at which list.insert(i, x) puts x; i may be negative
InsertPos(l, i) == IF i < 0 THEN Max(0, Len(l) + i) ELSE Min(i, Len(l))

\* list.insert(i, x)
ListInsert(l, i, x) ==
    SubSeq(l, 1, InsertPos(l, i)) \o <<x>> \o SubSeq(l, InsertPos(l, i) + 1, Len(l))

\* l without the element at 0-based position i
ListDelete(l, i) == SubSeq(l, 1, i) \o SubSeq(l, i + 2, Len(l))

-----------------------------------------------------------------------------
(* chatgpt.py: constants *)

EXIT_COMMAND == <<"e", "x", "i", "t", "(", ")">>

DEFAULT_MODEL == <<"g", "p", "t", "-", "3", ".", "5", "-", "t", "u", "r", "b", "o">>

DefaultSummaryLength == 10

Msg(role, content) == [role |-> role, content |-> content]

\* the texts typed at the prompts of a session
RoleInputs == {<<>>, <<"p", "o", "e", "t">>}

UserInputs == {<<>>, EXIT_COMMAND, <<"h", "i">>, <<"a", "\n", "b">>}

ChoiceInputs == {<<>>, <<"0">>, <<"1">>, <<"0", "1">>, <<"7">>, <<"a">>, <<"-", "1">>, <<SUP2>>}

\* what openai.Model.list() may do: raise one of the caught errors, or return ids
ModelListErrors ==
    {"APIError", "ServiceUnavailableError", "Timeout", "AuthenticationError", "OpenAIError"}

IdGpt4 == <<"g", "p", "t", "-", "4">>

IdAda == <<"a", "d", "a">>

ModelListData == {<<IdGpt4, IdAda, DEFAULT_MODEL>>, <<IdGpt4>>, <<IdAda>>}

ModelListReplies == {<<<<e>>>> : e \in ModelListErrors} \cup ModelListData

IsModelListError(reply) == \E e \in ModelListErrors : reply = <<<<e>>>>

\* what a streamed completion may consist of: a sequence of chunk deltas, each a
\* dictionary that may or may not hold "role" and "content"
StreamHello ==
    << [role |-> "assistant", content |-> <<>>], [content |-> <<"h">>], [content |-> <<"i">>],
       [x \in {} |-> <<>>] >>

StreamTwoLines == << [role |-> "assistant"], [content |-> <<"a", "\n", "b">>] >>

StreamNoRole == << [content |-> <<"o", "k">>] >>

Streams == {StreamHello, StreamTwoLines, StreamNoRole}

\* what the summary completion may answer
SummaryReplies ==
    { <<"a", "/", "b">>, <<"a", ":", "b">>,
      <<"w", "e", "a", "t", "h", "e", "r", "?", "t", "o", "d", "a">> }

-----------------------------------------------------------------------------
(* chatgpt.py: functions *)

\* mutant: the system message is appended even for an empty answer
MutSeedChatLog(role_text) == <<Msg("system", role_text)>>

\* generate_chat_log: the log after the system-role prompt
SeedChatLog(role_text) ==
    IF role_text # <<>> THEN <<Msg("system", role_text)>> ELSE <<>>

\* mutant: the loop compares with "exit" instead of EXIT_COMMAND
MutIsExitCommand(p) == p = <<"e", "x", "i", "t">>

\* generate_chat_log: the loop's exit test
IsExitCommand(p) == p = EXIT_COMMAND

\* dict.get(key, default)
DeltaGet(delta, key, default) == IF key \in DOMAIN delta THEN delta[key] ELSE default

\* stream_and_concatenate_response: <<concatenate_response, role>> after the chunks
\* response[1..n]
RECURSIVE StreamFold(_, _)
StreamFold(response, n) ==
    IF n = 0 THEN << <<>>, "" >>
    ELSE LET acc == StreamFold(response, n - 1)
             content_chunk == DeltaGet(response[n], "content", <<>>)
             role_chunk == DeltaGet(response[n], "role", "")
         IN << acc[1] \o content_chunk, IF role_chunk # "" THEN role_chunk ELSE acc[2] >>

StreamAndConcatenateResponse(response) == StreamFold(response, Len(response))

\* fetch_gpt_model_list, else branch: keep the ids that contain "gpt", sorted
RECURSIVE FilterGpt(_)
FilterGpt(ids) ==
    IF Len(ids) = 0 THEN <<>>
    ELSE (IF Contains(ids[1], <<"g", "p", "t">>) THEN <<ids[1]>> ELSE <<>>)
         \o FilterGpt(Tail(ids))

FetchGptModelList(reply) ==
    IF IsModelListError(reply) THEN NoneList ELSE Sorted(FilterGpt(reply))

\* "not gpt_list": None and the empty list are both falsy
Falsy(l) == l = NoneList \/ l = <<>>

\* one pass of choice_model's loop on the line read:
\* the function returns, prompts again, or int() raises
ChoiceModelStep(gpt_model_list, line) ==
    IF line = <<>> THEN [kind |-> "return", value |-> DEFAULT_MODEL, notice |-> "none"]
    ELSE IF ~IsDigit(line)
        THEN [kind |-> "again", value |-> None, notice |-> "digits_required"]
    ELSE IF IntRaises(line)
        THEN [kind |-> "raise", value |-> None, notice |-> "none"]
    ELSE IF ~(IntValue(line) \in 0..(Len(gpt_model_list) - 1))
        THEN [kind |-> "again", value |-> None, notice |-> "not_in_choices"]
    ELSE [kind |-> "return", value |-> gpt_model_list[IntValue(line) + 1], notice |-> "none"]

\* get_initial_prompt: content of the first message whose role is "user", else None
RECURSIVE GetInitialPrompt(_)
GetInitialPrompt(log) ==
    IF Len(log) = 0 THEN None
    ELSE IF log[1].role = "user" THEN log[1].content
    ELSE GetInitialPrompt(Tail(log))

\* generate_summary: the messages of the summary request
SummaryMessages(initial_prompt, summary_length) ==
    << Msg("system", <<"summarize within", ToString(summary_length)>>),
       Msg("user", initial_prompt) >>

\* mutant: the cut keeps one character too many
MutGenerateSummary(answer, summary_length) ==
    IF Len(answer) > summary_length THEN SliceTo(answer, summary_length + 1) ELSE answer

\* generate_summary: the returned text, given the completion's answer
GenerateSummary(answer, summary_length) ==
    IF Len(answer) > summary_length THEN SliceTo(answer, summary_length) ELSE answer

-----------------------------------------------------------------------------
(* output_excel.py *)

\* the texts of the header cells A2 and B2
HeaderRole == "role_header"

HeaderContent == "content_header"

\* what datetime.now().strftime(...) may give
Timestamps == {"2023/06/01 10:00", "2023/06/02 18:30"}

write_start_row == 3

row_height_adjustment_standard == 17

ColumnWidthA == 22

ColumnWidthB == 168

excel_green == "156B31"

light_gray == "d9d9d9"

BlankCell == [value |-> "", font |-> "default", fill |-> "none", wrap |-> FALSE]

\* a worksheet without cells
EmptySheet(title) ==
    [title |-> title, cells |-> [c \in {} |-> BlankCell],
     row_height |-> [r \in {} |-> 0], col_width |-> [c \in {} |-> 0]]

\* openpyxl.Workbook(): one empty worksheet "Sheet", which is the active one
NewWorkbook == [sheets |-> <<EmptySheet(<<"S", "h", "e", "e", "t">>)>>, active |-> 0]

NoWorkbook == [sheets |-> <<>>, active |-> 0]

MissingFile == [exists |-> FALSE, sheets |-> <<>>, active |-> 0]

CellAt(ws, c) == IF c \in DOMAIN ws.cells THEN ws.cells[c] ELSE BlankCell

WithCell(ws, c, cell) ==
    [ws EXCEPT !.cells = [d \in (DOMAIN ws.cells) \cup {c} |-> IF d = c THEN cell ELSE ws.cells[d]]]

WithRowHeight(ws, r, h) ==
    [ws EXCEPT !.row_height =
        [d \in (DOMAIN ws.row_height) \cup {r} |-> IF d = r THEN h ELSE ws.row_height[d]]]

\* is_output_open_excel: "raise" (FileNotFoundError), or the value returned
IsOutputOpenExcel(os, f, held) ==
    IF os = "nt"
        THEN (IF ~f.exists THEN "raise" ELSE IF held THEN "True" ELSE "False")
    ELSE IF f.exists THEN (IF held THEN "True" ELSE "False")
    ELSE "False"

\* load_or_create_workbook: <<wb, is_created>>
LoadOrCreateWorkbook(f) ==
    IF f.exists THEN << [sheets |-> f.sheets, active |-> f.active], FALSE >>
    ELSE << NewWorkbook, TRUE >>

invalid_chars == <<"/", "\\", "?", "*", "[", "]">>

\* trim_invalid_chars: the title after removing invalid_chars[1..n]
RECURSIVE TrimFold(_, _)
TrimFold(title, n) ==
    IF n = 0 THEN title ELSE ReplaceChar(TrimFold(title, n - 1), invalid_chars[n])

TrimInvalidChars(title) == TrimFold(title, Len(invalid_chars))

\* the worksheet-title setter of the spreadsheet library raises ValueError on these
LibraryRejectsTitle(title) ==
    \E i \in 1..Len(title) : title[i] \in {"\\", "*", "?", ":", "/", "[", "]"}

\* mutant: the offset is one short of the front
MutMoveSheetOffset(n_worksheets) == -n_worksheets + 2

\* create_worksheet, existing workbook: the offset handed to move_sheet
MoveSheetOffset(n_worksheets) == -n_worksheets + 1

\* Workbook.move_sheet(sheet, offset) for the sheet at 0-based position idx
MoveSheet(sheets, idx, offset) ==
    ListInsert(ListDelete(sheets, idx), idx + offset, sheets[idx + 1])

\* create_worksheet: the workbook with the target worksheet titled and placed;
\* the target worksheet is the active one of the result
CreateWorksheet(title, wb, is_new) ==
    IF is_new
        THEN [wb EXCEPT !.sheets[wb.active + 1].title = title]
    ELSE LET added == Append(wb.sheets, EmptySheet(title))
             idx == Len(added) - 1
             offset == MoveSheetOffset(Len(added))
         IN [sheets |-> MoveSheet(added, idx, offset),
             active |-> InsertPos(ListDelete(added, idx), idx + offset)]

\* header_formatting
HeaderFormatting(ws, now) ==
    LET a1 == WithCell(ws, <<"A", 1>>,
                  [CellAt(ws, <<"A", 1>>) EXCEPT !.value = now, !.font = "meiryo"])
        a2 == WithCell(a1, <<"A", 2>>,
                  [CellAt(a1, <<"A", 2>>) EXCEPT !.value = HeaderRole,
                      !.font = "meiryo_bold_white", !.fill = excel_green])
        b2 == WithCell(a2, <<"B", 2>>,
                  [CellAt(a2, <<"B", 2>>) EXCEPT !.value = HeaderContent,
                      !.font = "meiryo_bold_white", !.fill = excel_green])
    IN [b2 EXCEPT !.col_width = [c \in {"A", "B"} |-> IF c = "A" THEN ColumnWidthA ELSE ColumnWidthB]]

\* len(text.split("\n"))
LineCount(text) == Len(SelectSeq(text, LAMBDA x : x = "\n")) + 1

\* mutant: the rows start one below write_start_row
MutRowNumber(k) == write_start_row + k

\* write_chat_log: the row enumerate(chat_log, write_start_row) gives the k-th message
RowNumber(k) == write_start_row + (k - 1)

\* write_chat_log: whether a row gets assistant_color
IsShadedRole(role) == role = "assistant"

\* write_chat_log: the body of the loop for the k-th message
WriteRow(ws, content, row_number) ==
    LET shade == IsShadedRole(content.role)
        r == WithCell(ws, <<"A", row_number>>,
                 [CellAt(ws, <<"A", row_number>>) EXCEPT !.value = content.role,
                     !.font = "meiryo_10", !.fill = IF shade THEN light_gray ELSE @])
        c == WithCell(r, <<"B", row_number>>,
                 [CellAt(r, <<"B", row_number>>) EXCEPT !.value = content.content,
                     !.wrap = TRUE, !.font = "meiryo_10",
                     !.fill = IF shade THEN light_gray ELSE @])
    IN WithRowHeight(c, row_number, LineCount(content.content) * row_height_adjustment_standard)

\* write_chat_log: the worksheet after the first n messages
RECURSIVE WriteChatLog(_, _, _)
WriteChatLog(ws, log, n) ==
    IF n = 0 THEN ws ELSE WriteRow(WriteChatLog(ws, log, n - 1), log[n], RowNumber(n))

-----------------------------------------------------------------------------
(* The program: main.py *)

NoRequest == [model |-> None, messages |-> <<>>]

NoCalls == [fetch |-> 0, completion |-> 0, summary |-> 0, export |-> 0]

\* chat_log.xlsx as an earlier session left it
PreviousFile ==
    LET log == << Msg("user", <<"o", "l", "d">>), Msg("assistant", <<"y", "e", "s">>) >>
        wb == CreateWorksheet(<<"o", "l", "d">>, NewWorkbook, TRUE)
        ws == WriteChatLog(HeaderFormatting(wb.sheets[1], "2023/05/31 09:00"), log, Len(log))
    IN [exists |-> TRUE, sheets |-> <<ws>>, active |-> 0]

UserMessages(log) == SelectSeq(log, LAMBDA m : m.role = "user")

unchanged_export == <<workbook, is_created, trimmed_title, conflict, exports, before>>

unchanged_fn == <<fn_in, fn_budget, fn_out>>

unchanged_chat == <<gpt_list, input_number, choice, system_role, chat_log, prompt, request,
                    calls, did, summary>>

InitProgram ==
    /\ error = "none"
    /\ notice = "none"
    /\ gpt_list = NoneList
    /\ input_number = None
    /\ choice = None
    /\ system_role = None
    /\ chat_log = <<>>
    /\ prompt = <<>>
    /\ request = NoRequest
    /\ calls = NoCalls
    /\ did = {}
    /\ summary = <<>>
    /\ workbook = NoWorkbook
    /\ is_created = FALSE
    /\ trimmed_title = None
    /\ conflict = FALSE
    /\ exports = 0
    /\ before = MissingFile

InitCommon ==
    /\ fn_in = <<>>
    /\ fn_budget = 0
    /\ fn_out = None
    /\ InitProgram

Init ==
    /\ pc = "main"
    /\ os_name \in {"nt", "posix"}
    /\ file \in {MissingFile, PreviousFile}
    /\ other_open \in {FALSE} \cup {file.exists}
    /\ InitCommon

\* main.py 4-9: the pre-check, then chat_runner or the message
Main ==
    /\ pc = "main"
    /\ LET r == IsOutputOpenExcel(os_name, file, other_open)
       IN /\ pc' = CASE r = "raise" -> "crashed" [] r = "True" -> "aborted_file_open"
                     [] OTHER -> "fetch"
          /\ error' = IF r = "raise" THEN "FileNotFoundError" ELSE error
          /\ notice' = IF r = "True" THEN "file_open" ELSE notice
    /\ did' = did \cup {"precheck"}
    /\ UNCHANGED <<os_name, file, other_open, gpt_list, input_number, choice, system_role,
                   chat_log, prompt, request, calls, summary>>
    /\ UNCHANGED <<unchanged_export, unchanged_fn>>

\* chat_runner 230-233: fetch_gpt_model_list and the exit on a falsy list
Fetch(reply) ==
    /\ pc = "fetch"
    /\ gpt_list' = FetchGptModelList(reply)
    /\ calls' = [calls EXCEPT !.fetch = @ + 1]
    /\ did' = did \cup {"fetch"}
    /\ notice' = IF IsModelListError(reply) THEN reply[1][1] ELSE notice
    /\ pc' = IF Falsy(gpt_list') THEN "exit_no_models" ELSE "choice"
    /\ error' = IF Falsy(gpt_list') THEN "SystemExit" ELSE error
    /\ UNCHANGED <<os_name, file, other_open, input_number, choice, system_role, chat_log,
                   prompt, request, summary>>
    /\ UNCHANGED <<unchanged_export, unchanged_fn>>

\* choice_model 162-180: one line read at the model prompt
ChoiceModel(line) ==
    /\ pc = "choice"
    /\ LET r == ChoiceModelStep(gpt_list, line)
       IN /\ pc' = CASE r.kind = "return" -> "role" [] r.kind = "again" -> "choice"
                     [] OTHER -> "crashed"
          /\ choice' = r.value
          /\ notice' = r.notice
          /\ error' = IF r.kind = "raise" THEN "ValueError: int" ELSE error
    /\ input_number' = line
    /\ did' = did \cup {"input"}
    /\ UNCHANGED <<os_name, file, other_open, gpt_list, system_role, chat_log, prompt,
                   request, calls, summary>>
    /\ UNCHANGED <<unchanged_export, unchanged_fn>>

\* generate_chat_log 60-65: the system-role prompt
GiveRoleToSystem(text) ==
    /\ pc = "role"
    /\ system_role' = text
    /\ chat_log' = SeedChatLog(text)
    /\ did' = did \cup {"input"}
    /\ pc' = "prompt"
    /\ UNCHANGED <<os_name, file, other_open, error, notice, gpt_list, input_number, choice,
                   prompt, request, calls, summary>>
    /\ UNCHANGED <<unchanged_export, unchanged_fn>>

\* input_user_prompt 45-48: an empty line is answered with a message and read again
RePrompt ==
    /\ pc = "prompt"
    /\ notice' = "prompt_required"
    /\ did' = did \cup {"input"}
    /\ UNCHANGED <<pc, os_name, file, other_open, error, gpt_list, input_number, choice,
                   system_role, chat_log, prompt, request, calls, summary>>
    /\ UNCHANGED <<unchanged_export, unchanged_fn>>

\* generate_chat_log 68-76: a non-empty prompt that is not the exit command is
\* appended and the whole log is sent
SendPrompt(text) ==
    /\ pc = "prompt"
    /\ text # <<>>
    /\ ~IsExitCommand(text)
    /\ Len(UserMessages(chat_log)) < MaxTurns
    /\ prompt' = text
    /\ chat_log' = Append(chat_log, Msg("user", text))
    /\ request' = [model |-> choice, messages |-> chat_log']
    /\ calls' = [calls EXCEPT !.completion = @ + 1]
    /\ did' = did \cup {"input", "completion"}
    /\ notice' = "none"
    /\ pc' = "stream"
    /\ UNCHANGED <<os_name, file, other_open, error, gpt_list, input_number, choice,
                   system_role, summary>>
    /\ UNCHANGED <<unchanged_export, unchanged_fn>>

\* mutant: the empty-log exit is missing
MutLogIsEmpty(log) == FALSE

\* chat_runner 240: "not generated_log"
LogIsEmpty(log) == log = <<>>

\* generate_chat_log 69-70, 82 and chat_runner 238-251: the exit command ends the
\* loop; chat_runner exits on an empty log, asks for the summary of the first user
\* prompt, or returns an empty summary
ExitChat(text) ==
    /\ pc = "prompt"
    /\ text # <<>>
    /\ IsExitCommand(text)
    /\ prompt' = text
    /\ did' = did \cup {"input"} \cup
              (IF ~LogIsEmpty(chat_log) /\ GetInitialPrompt(chat_log) # None
               THEN {"summary"} ELSE {})
    /\ IF LogIsEmpty(chat_log)
         THEN /\ pc' = "exit_empty_log"
              /\ error' = "SystemExit"
              /\ UNCHANGED <<request, calls, summary>>
       ELSE IF GetInitialPrompt(chat_log) # None
         THEN /\ pc' = "summary"
              /\ request' = [model |-> DEFAULT_MODEL,
                             messages |-> SummaryMessages(GetInitialPrompt(chat_log),
                                                          DefaultSummaryLength)]
              /\ calls' = [calls EXCEPT !.summary = @ + 1]
              /\ UNCHANGED <<error, summary>>
       ELSE /\ pc' = "output_excel"
            /\ summary' = <<>>
            /\ UNCHANGED <<error, request, calls>>
    /\ UNCHANGED <<os_name, file, other_open, notice, gpt_list, input_number, choice,
                   system_role, chat_log>>
    /\ UNCHANGED <<unchanged_export, unchanged_fn>>

\* generate_chat_log 77-80: the streamed answer is concatenated and appended
StreamResponse(response) ==
    /\ pc = "stream"
    /\ LET r == StreamAndConcatenateResponse(response)
       IN chat_log' = Append(chat_log, Msg(r[2], r[1]))
    /\ pc' = "prompt"
    /\ UNCHANGED <<os_name, file, other_open, error, notice, gpt_list, input_number, choice,
                   system_role, prompt, request, calls, did, summary>>
    /\ UNCHANGED <<unchanged_export, unchanged_fn>>

\* a completion call (chat or summary) raises: nothing catches it
CompletionFails ==
    /\ pc \in {"stream", "summary"}
    /\ pc' = "crashed"
    /\ error' = "OpenAIError"
    /\ UNCHANGED <<os_name, file, other_open, notice>>
    /\ UNCHANGED <<unchanged_chat, unchanged_export, unchanged_fn>>

\* generate_summary 211-217 and chat_runner 249-251
SummaryReply(answer) ==
    /\ pc = "summary"
    /\ summary' = GenerateSummary(answer, DefaultSummaryLength)
    /\ pc' = "output_excel"
    /\ UNCHANGED <<os_name, file, other_open, error, notice, gpt_list, input_number, choice,
                   system_role, chat_log, prompt, request, calls, did>>
    /\ UNCHANGED <<unchanged_export, unchanged_fn>>

\* output_excel 182-185: load or create the workbook, create the worksheet, write
\* the header and the chat log (all in memory)
OutputExcelLoad(now) ==
    /\ pc = "output_excel"
    /\ LET lc == LoadOrCreateWorkbook(file)
           title == TrimInvalidChars(summary)
           wb == CreateWorksheet(title, lc[1], lc[2])
           ws == WriteChatLog(HeaderFormatting(wb.sheets[wb.active + 1], now),
                              chat_log, Len(chat_log))
       IN /\ is_created' = lc[2]
          /\ trimmed_title' = title
          /\ IF LibraryRejectsTitle(title)
               THEN /\ workbook' = lc[1]
                    /\ pc' = "crashed"
                    /\ error' = "ValueError: title"
             ELSE /\ workbook' = [wb EXCEPT !.sheets[wb.active + 1] = ws]
                  /\ pc' = "save"
                  /\ error' = error
    /\ before' = file
    /\ conflict' = (conflict \/ (file.exists /\ other_open))
    /\ calls' = [calls EXCEPT !.export = @ + 1]
    /\ did' = did \cup {"load"}
    /\ UNCHANGED <<os_name, file, other_open, notice, gpt_list, input_number, choice,
                   system_role, chat_log, prompt, request, summary, exports>>
    /\ UNCHANGED unchanged_fn

\* output_excel 186-188: save; a file another process holds open cannot be
\* written on "nt" (PermissionError) and is overwritten on "posix"
Save ==
    /\ pc = "save"
    /\ did' = did \cup {"save"}
    /\ conflict' = (conflict \/ other_open)
    /\ IF os_name = "nt" /\ other_open
         THEN /\ pc' = "crashed"
              /\ error' = "PermissionError"
              /\ UNCHANGED <<file, exports>>
       ELSE /\ pc' = "done"
            /\ file' = [exists |-> TRUE, sheets |-> workbook.sheets, active |-> workbook.active]
            /\ exports' = exports + 1
            /\ error' = error
    /\ UNCHANGED <<os_name, other_open, notice, gpt_list, input_number, choice, system_role,
                   chat_log, prompt, request, calls, summary, workbook, is_created,
                   trimmed_title, before>>
    /\ UNCHANGED unchanged_fn

\* another process opens chat_log.xlsx
OtherOpens ==
    /\ file.exists
    /\ ~other_open
    /\ other_open' = TRUE
    /\ UNCHANGED <<pc, os_name, file, error, notice>>
    /\ UNCHANGED <<unchanged_chat, unchanged_export, unchanged_fn>>

\* the other process closes chat_log.xlsx
OtherCloses ==
    /\ other_open
    /\ other_open' = FALSE
    /\ UNCHANGED <<pc, os_name, file, error, notice>>
    /\ UNCHANGED <<unchanged_chat, unchanged_export, unchanged_fn>>

Next ==
    \/ Main
    \/ \E reply \in ModelListReplies : Fetch(reply)
    \/ \E line \in ChoiceInputs : ChoiceModel(line)
    \/ \E text \in RoleInputs : GiveRoleToSystem(text)
    \/ RePrompt
    \/ \E text \in UserInputs : SendPrompt(text)
    \/ \E text \in UserInputs : ExitChat(text)
    \/ \E response \in Streams : StreamResponse(response)
    \/ CompletionFails
    \/ \E answer \in SummaryReplies : SummaryReply(answer)
    \/ \E now \in Timestamps : OutputExcelLoad(now)
    \/ Save
    \/ OtherOpens
    \/ OtherCloses

Spec == Init /\ [][Next]_vars

-----------------------------------------------------------------------------
(* output_excel called again and again on the same file, as output_excel.py 191-202 *)

ExportLogs ==
    { <<>>,
      << Msg("user", <<"h", "i">>), Msg("assistant", <<"h", "e", "l", "l", "o">>) >>,
      << Msg("system", <<"p", "o", "e", "t">>), Msg("user", <<"a", "\n", "b">>),
         Msg("", <<"o", "k">>) >> }

ExportSummaries == { <<"a", "/", "b">>, <<"h", "i">>, <<"a", ":", "b">> }

InitExport ==
    /\ pc = "idle"
    /\ os_name \in {"nt", "posix"}
    /\ file = MissingFile
    /\ other_open = FALSE
    /\ InitCommon

ExportCall(log, title) ==
    /\ pc \in {"idle", "done"}
    /\ exports < MaxExports
    /\ chat_log' = log
    /\ summary' = title
    /\ pc' = "output_excel"
    /\ UNCHANGED <<os_name, file, other_open, error, notice, gpt_list, input_number, choice,
                   system_role, prompt, request, calls, did>>
    /\ UNCHANGED <<unchanged_export, unchanged_fn>>

NextExport ==
    \/ \E log \in ExportLogs, title \in ExportSummaries : ExportCall(log, title)
    \/ \E now \in Timestamps : OutputExcelLoad(now)
    \/ Save

SpecExport == InitExport /\ [][NextExport]_vars

-----------------------------------------------------------------------------
(* generate_summary applied to arbitrary answers and budgets *)

TextChars == {"a", ".", ELLIPSIS}

TextsUpTo(n) == UNION {[1..k -> TextChars] : k \in 0..n}

LongTexts ==
    { <<"w", "e", "a", "t", "h", "e", "r", "?", "t", "o", "d", "a">>,
      <<"a", "a", "a", "a", "a", "a", "a", "a", "a", ELLIPSIS, "a">> }

InitText ==
    /\ pc = "fn"
    /\ os_name = "posix"
    /\ file = MissingFile
    /\ other_open = FALSE
    /\ fn_in \in TextsUpTo(MaxTextLen) \cup LongTexts
    /\ fn_budget \in (0..MaxBudget) \cup {DefaultSummaryLength}
    /\ fn_out = None
    /\ InitProgram

ApplyGenerateSummary ==
    /\ pc = "fn"
    /\ fn_out' = GenerateSummary(fn_in, fn_budget)
    /\ pc' = "summarized"
    /\ UNCHANGED <<os_name, file, other_open, error, notice, fn_in, fn_budget>>
    /\ UNCHANGED <<unchanged_chat, unchanged_export>>

NextText == ApplyGenerateSummary

SpecText == InitText /\ [][NextText]_vars

-----------------------------------------------------------------------------
(* Properties *)

\* the steps of the program itself (everything but the other process)
ProgramStep ==
    \/ Main
    \/ \E reply \in ModelListReplies : Fetch(reply)
    \/ \E line \in ChoiceInputs : ChoiceModel(line)
    \/ \E text \in RoleInputs : GiveRoleToSystem(text)
    \/ RePrompt
    \/ \E text \in UserInputs : SendPrompt(text)
    \/ \E text \in UserInputs : ExitChat(text)
    \/ \E response \in Streams : StreamResponse(response)
    \/ CompletionFails
    \/ \E answer \in SummaryReplies : SummaryReply(answer)
    \/ \E now \in Timestamps : OutputExcelLoad(now)
    \/ Save

\* the exit command was the first text entered at the user prompt
ExitedFirst == prompt = EXIT_COMMAND /\ calls.completion = 0

\* C1 as stated: when "exit()" is the first text entered at the user prompt, the
\* returned transcript is empty, whatever was answered to the system-role prompt.
C1_ExitFirstEmptyTranscript == ExitedFirst => chat_log = <<>>

\* C1 amended: when "exit()" is the first text entered at the user prompt, the
\* returned transcript holds no user or assistant message: it is empty if the
\* system-role answer was empty, and is exactly the one system message otherwise.
C1_ExitFirstOnlySystemMessage ==
    ExitedFirst =>
        /\ Len(chat_log) = (IF system_role = <<>> THEN 0 ELSE 1)
        /\ \A i \in 1..Len(chat_log) :
              chat_log[i].role = "system" /\ chat_log[i].content = system_role

C1_Witness ==
    /\ ExitedFirst
    /\ system_role = <<"p", "o", "e", "t">>
    /\ Len(chat_log) = 1
    /\ pc = "output_excel"

\* C2: no transcript message with role "user" (and none sent to the completion
\* endpoint) has empty content or the exit command as content; every chat
\* completion call belongs to one appended user message, so neither an empty line
\* nor the exit command appends anything or causes a call.
C2_NoEmptyOrExitUserMessage ==
    /\ \A i \in 1..Len(chat_log) :
          chat_log[i].role = "user" => chat_log[i].content \notin {<<>>, EXIT_COMMAND}
    /\ \A i \in 1..Len(request.messages) :
          request.messages[i].role = "user" =>
              request.messages[i].content \notin {<<>>, EXIT_COMMAND}
    /\ calls.completion = Len(UserMessages(chat_log))
    /\ pc = "prompt" => Len(chat_log) = Len(SeedChatLog(system_role)) + 2 * calls.completion

C2_Witness ==
    /\ prompt = EXIT_COMMAND
    /\ notice = "prompt_required"
    /\ calls.completion = 1
    /\ Len(UserMessages(chat_log)) = 1

\* a decimal index into the list
IsIndexOf(line, list) ==
    /\ Len(line) > 0
    /\ \A i \in 1..Len(line) : line[i] \in DecimalChars
    /\ IntValue(line) < Len(list)

\* C3 as stated: choice_model returns the list entry for a numeric index in range,
\* the default model for empty input, and on any other input neither returns nor
\* ends the prompt loop but prompts again.
C3_ChoiceModel ==
    input_number # None =>
        IF input_number = <<>> THEN choice = DEFAULT_MODEL /\ pc # "choice"
        ELSE IF IsIndexOf(input_number, gpt_list)
            THEN choice = gpt_list[IntValue(input_number) + 1] /\ pc # "choice"
        ELSE pc = "choice" /\ choice = None /\ error = "none"

\* a visible truncation marker at the end of a text
EndsWithMarker(text) ==
    \/ Len(text) >= 1 /\ text[Len(text)] = ELLIPSIS
    \/ Len(text) >= 3 /\ SubSeq(text, Len(text) - 2, Len(text)) = <<".", ".", ".">>

\* C4 as stated: the summary is at most summary_length long, is the answer itself
\* when that fits, and otherwise is a truncation of the answer that ends with a
\* visible truncation marker.
C4_SummaryWithMarker ==
    pc = "summarized" =>
        /\ Len(fn_out) <= fn_budget
        /\ Len(fn_in) <= fn_budget => fn_out = fn_in
        /\ Len(fn_in) > fn_budget => EndsWithMarker(fn_out)

\* C4 amended: the summary is at most summary_length long, is the answer itself
\* when that fits, and otherwise is exactly the first summary_length characters
\* of the answer (a hard cut, no marker).
C4_SummaryHardCut ==
    pc = "summarized" =>
        /\ Len(fn_out) <= fn_budget
        /\ Len(fn_in) <= fn_budget => fn_out = fn_in
        /\ Len(fn_in) > fn_budget =>
              /\ Len(fn_out) = fn_budget
              /\ \A i \in 1..fn_budget : fn_out[i] = fn_in[i]

C4_Witness ==
    /\ pc = "summarized"
    /\ fn_budget = DefaultSummaryLength
    /\ Len(fn_in) > fn_budget
    /\ Len(fn_out) = DefaultSummaryLength

ReservedTitleChars == {":", "\\", "/", "?", "*", "[", "]"}

\* C5 as stated: the title create_worksheet gives the worksheet holds none of the
\* seven reserved characters and is the summary with exactly those removed.
C5_TitleHasNoReservedChar ==
    trimmed_title # None =>
        /\ \A i \in 1..Len(trimmed_title) : trimmed_title[i] \notin ReservedTitleChars
        /\ trimmed_title = SelectSeq(summary, LAMBDA c : c \notin ReservedTitleChars)

\* the worksheet an export wrote: the active one of the saved file
Written == file.sheets[file.active + 1]

\* C6: an export of N messages leaves, in the worksheet it wrote, the
\* timestamp/header band in rows 1-2 and exactly the rows 3..N+2, row 3+k holding
\* role and content of the k-th message (k from 0) in columns A and B, shaded if
\* and only if the role is "assistant".
C6_OneRowPerMessage ==
    pc = "done" =>
        LET n == Len(chat_log)
            cells == Written.cells
        IN /\ DOMAIN cells =
                 {<<"A", 1>>, <<"A", 2>>, <<"B", 2>>} \cup ({"A", "B"} \X (3..(n + 2)))
           /\ cells[<<"A", 1>>].value \in Timestamps
           /\ cells[<<"A", 2>>].value = HeaderRole
           /\ cells[<<"B", 2>>].value = HeaderContent
           /\ \A k \in 0..(n - 1) :
                 /\ cells[<<"A", 3 + k>>].value = chat_log[k + 1].role
                 /\ cells[<<"B", 3 + k>>].value = chat_log[k + 1].content
                 /\ \A col \in {"A", "B"} :
                       (cells[<<col, 3 + k>>].fill # "none") <=> (chat_log[k + 1].role = "assistant")

C6_Witness ==
    /\ pc = "done"
    /\ ~is_created
    /\ Len(chat_log) = 3
    /\ Written.cells[<<"A", 5>>].fill = "none"
    /\ Written.cells[<<"B", 4>>].value = <<"a", "\n", "b">>

\* C7 as stated: every message has role "system", "user" or "assistant"; a system
\* message appears only first; after it the messages alternate user, assistant;
\* and a completion call is sent the whole transcript ending with the user message.
C7_TranscriptWellFormed ==
    LET off == IF Len(chat_log) > 0 /\ chat_log[1].role = "system" THEN 1 ELSE 0
    IN /\ \A i \in 1..Len(chat_log) : chat_log[i].role \in {"system", "user", "assistant"}
       /\ \A i \in 1..Len(chat_log) : chat_log[i].role = "system" => i = 1
       /\ \A i \in (off + 1)..Len(chat_log) :
             chat_log[i].role = (IF (i - off) % 2 = 1 THEN "user" ELSE "assistant")
       /\ pc = "stream" =>
             /\ request.messages = chat_log
             /\ chat_log[Len(chat_log)].role = "user"

\* the three ways a run ends without an export
FetchFailed == calls.fetch > 0 /\ Falsy(gpt_list)

EmptyAtExit == prompt = EXIT_COMMAND /\ chat_log = <<>>

DetectedOpen == notice = "file_open"

NeverExported ==
    /\ calls.export = 0
    /\ did \cap {"load", "save"} = {}
    /\ workbook = NoWorkbook
    /\ ~ENABLED ProgramStep

\* C8: when the model-list fetch fails, when the transcript is empty as the chat
\* loop exits, or when the file is detected open, the run has ended and the
\* exporter was never entered; after a failed fetch there was one fetch and no
\* prompt or completion call, with an empty transcript no summary call, and on a
\* detected open file nothing but the pre-check happened.
C8_NoExportOnEarlyExit ==
    /\ FetchFailed =>
          /\ pc = "exit_no_models"
          /\ NeverExported
          /\ calls.fetch = 1
          /\ "input" \notin did
          /\ calls.completion = 0 /\ calls.summary = 0
    /\ EmptyAtExit =>
          /\ pc = "exit_empty_log"
          /\ NeverExported
          /\ calls.summary = 0
    /\ DetectedOpen =>
          /\ pc = "aborted_file_open"
          /\ NeverExported
          /\ did = {"precheck"}
          /\ calls = NoCalls

C8_Witness ==
    /\ EmptyAtExit
    /\ pc = "exit_empty_log"
    /\ notice = "prompt_required"
    /\ choice = IdGpt4

\* C9: each finished export adds exactly one worksheet to the file: one sheet in
\* all after the first export on a missing file, one more after every later
\* export; the worksheet just written is first and active, and the worksheets the
\* file held before follow it unchanged and in their order.
C9_OneSheetPerExport ==
    pc = "done" =>
        /\ Len(file.sheets) = (IF before.exists THEN Len(before.sheets) + 1 ELSE 1)
        /\ Len(file.sheets) = exports
        /\ file.active = 0
        /\ file.sheets[1].title = trimmed_title
        /\ \A k \in 1..Len(chat_log) :
              file.sheets[1].cells[<<"B", 2 + k>>].value = chat_log[k].content
        /\ \A i \in 1..Len(before.sheets) : file.sheets[i + 1] = before.sheets[i]

C9_Witness ==
    /\ pc = "done"
    /\ exports = 3
    /\ Len(file.sheets) = 3
    /\ file.sheets[1] # file.sheets[2]
    /\ file.sheets[2] # file.sheets[3]

\* C10 as stated: output_excel never loads or saves the workbook while another
\* process holds the file open.
C10_ExporterOwnsFile == ~conflict

====
